---- MODULE Spec2Model ----
(***************************************************************************)
(* Model of PhoenixEngineDemo (src/phoenix_simple_demo.py): the engine's   *)
(* lifecycle flag, its PhoenixMetrics object, and the scoring / sizing     *)
(* arithmetic of process_signal.  Python floats are modelled as exact      *)
(* rationals <<numerator, denominator>> in lowest terms, denominator > 0.  *)
(***************************************************************************)
EXTENDS Integers, Sequences, FiniteSets, TLC

VARIABLES
    active,        \* self.active
    config,        \* self.config (PhoenixConfig)
    metrics,       \* the PhoenixMetrics object held in self.metrics
    op,            \* the operation that ran last
    lastSignal,    \* argument of the last process_signal call
    confidence,    \* local `confidence` of the last process_signal call
    result,        \* value returned by the last process_signal call
    snapshot,      \* what the caller holds from the last get_metrics call
    snapAtReturn,  \* the field values that snapshot showed when it was returned
    getsSinceProcess, \* get_metrics calls since the last process_signal (0..2)
    scoreOut,      \* value returned by a direct calculate_confidence call
    scorePrev,     \* argument and value of the calculate_confidence call before that
    sizeOut,       \* arguments and value of a direct calculate_position_size call
    signalsReturned, \* process_signal calls so far that returned a TradingSignal
    pc             \* where main() stands (used by the driver specification)

vars == <<active, config, metrics, op, lastSignal, confidence, result,
          snapshot, snapAtReturn, getsSinceProcess, scoreOut, scorePrev,
          sizeOut, signalsReturned, pc>>

\* Python's None where a record is expected
None == [none |-> TRUE]
\* a float-valued local or return value that has not been computed
Unset == <<>>

\* Bound on the number of trades an explored run may record.
MaxTrades == 3

-----------------------------------------------------------------------------
(* Exact rational arithmetic standing for Python float arithmetic.         *)

Abs(x) == IF x < 0 THEN -x ELSE x

RECURSIVE GCD(_, _)
GCD(a, b) == IF b = 0 THEN a ELSE GCD(b, a % b)

Rat(n, d) == LET g == GCD(Abs(n), d) IN <<n \div g, d \div g>>

RMul(a, b) == Rat(a[1] * b[1], a[2] * b[2])
RAdd(a, b) == Rat(a[1] * b[2] + b[1] * a[2], a[2] * b[2])
RSub(a, b) == Rat(a[1] * b[2] - b[1] * a[2], a[2] * b[2])
\* a / b for a positive divisor b
RDiv(a, b) == Rat(a[1] * b[2], a[2] * b[1])
RLt(a, b)  == a[1] * b[2] < b[1] * a[2]
RLeq(a, b) == a[1] * b[2] <= b[1] * a[2]
RGt(a, b)  == RLt(b, a)
RMin(a, b) == IF RLt(b, a) THEN b ELSE a
RAbs(a)    == <<Abs(a[1]), a[2]>>

Zero == <<0, 1>>
One  == <<1, 1>>

-----------------------------------------------------------------------------
(* Inputs.  Nothing validates a MarketSignal, so the sets include values   *)
(* outside the documented ranges.                                          *)

Tokens    == {"BONK"}
Prices    == {Rat(1, 1000)}
Volumes   == {Rat(-2000000, 1), Rat(100000, 1), Rat(1000000, 1), Rat(2000000, 1)}
Strengths == {Rat(-1, 1), Rat(1, 5), Rat(1, 2), Rat(14, 17),
              Rat(9, 10), Rat(16, 17), Rat(82, 85), One, Rat(2, 1)}

MarketSignal == [token : Tokens, price : Prices, volume : Volumes,
                 signal_strength : Strengths]

\* main() constructs the engine with 1000.0
Capital == 1000

-----------------------------------------------------------------------------
(* PhoenixEngineDemo                                                       *)

calculate_confidence_Unclamped(cfg, signal) ==
    LET volume_factor   == RDiv(signal.volume, Rat(1000000, 1))
        strength_factor == signal.signal_strength
        risk_factor     == cfg.risk_tolerance
    IN  RMul(RMul(volume_factor, strength_factor), risk_factor)
calculate_confidence(cfg, signal) ==
    LET volume_factor   == RMin(RDiv(signal.volume, Rat(1000000, 1)), One)
        strength_factor == signal.signal_strength
        risk_factor     == cfg.risk_tolerance
    IN  RMin(RMul(RMul(volume_factor, strength_factor), risk_factor), One)

calculate_position_size_RawStrength(cfg, signal, conf) ==
    LET base_size             == cfg.max_position_size
        confidence_multiplier == conf
        volatility_adjustment == signal.signal_strength
    IN  RMul(RMul(base_size, confidence_multiplier), volatility_adjustment)
calculate_position_size_ZeroAtExtremes(cfg, signal, conf) ==
    LET base_size             == cfg.max_position_size
        confidence_multiplier == conf
        volatility_adjustment ==
            RSub(One, RMul(Rat(2, 1), RAbs(RSub(signal.signal_strength, Rat(1, 2)))))
    IN  RMul(RMul(base_size, confidence_multiplier), volatility_adjustment)
calculate_position_size(cfg, signal, conf) ==
    LET base_size             == cfg.max_position_size
        confidence_multiplier == conf
        volatility_adjustment == RSub(One, RAbs(RSub(signal.signal_strength, Rat(1, 2))))
    IN  RMul(RMul(base_size, confidence_multiplier), volatility_adjustment)

NewConfig(capital) ==
    [capital           |-> Rat(capital, 1),
     risk_tolerance    |-> Rat(85, 100),
     max_position_size |-> RMul(Rat(capital, 1), Rat(1, 10)),
     trading_mode      |-> "DEMO"]

NewMetrics ==
    [total_trades       |-> 0,
     successful_trades  |-> 0,
     total_pnl          |-> Zero,
     win_rate           |-> Zero,
     avg_trade_duration |-> Zero,
     current_positions  |-> 0]

Init ==
    /\ config = NewConfig(Capital)
    /\ metrics = NewMetrics
    /\ active = FALSE
    /\ op = "init"
    /\ lastSignal = None
    /\ confidence = Unset
    /\ result = None
    /\ snapshot = None
    /\ snapAtReturn = None
    /\ getsSinceProcess = 0
    /\ scoreOut = Unset
    /\ scorePrev = None
    /\ sizeOut = None
    /\ signalsReturned = 0
    /\ pc = "idle"

Activate_ResetsMetrics ==
    /\ active' = TRUE
    /\ op' = "activate"
    /\ metrics' = NewMetrics
    /\ UNCHANGED <<config, lastSignal, confidence, result,
                   snapshot, snapAtReturn, getsSinceProcess, scoreOut,
                   scorePrev, sizeOut, signalsReturned, pc>>
Activate ==
    /\ active' = TRUE
    /\ op' = "activate"
    /\ UNCHANGED <<config, metrics, lastSignal, confidence, result,
                   snapshot, snapAtReturn, getsSinceProcess, scoreOut,
                   scorePrev, sizeOut, signalsReturned, pc>>

Deactivate_ResetsMetrics ==
    /\ active' = FALSE
    /\ op' = "deactivate"
    /\ metrics' = NewMetrics
    /\ UNCHANGED <<config, lastSignal, confidence, result,
                   snapshot, snapAtReturn, getsSinceProcess, scoreOut,
                   scorePrev, sizeOut, signalsReturned, pc>>
Deactivate ==
    /\ active' = FALSE
    /\ op' = "deactivate"
    /\ UNCHANGED <<config, metrics, lastSignal, confidence, result,
                   snapshot, snapAtReturn, getsSinceProcess, scoreOut,
                   scorePrev, sizeOut, signalsReturned, pc>>

\* line 81: the decision threshold
Qualifies_Inclusive(conf) == RLeq(Rat(7, 10), conf)
Qualifies_Low(conf) == RGt(conf, Rat(7, 100))
Qualifies(conf) == RGt(conf, Rat(7, 10))

\* line 82
ChooseAction_Hold(signal) ==
    IF RGt(signal.signal_strength, Rat(1, 2)) THEN "BUY" ELSE "HOLD"
ChooseAction(signal) ==
    IF RGt(signal.signal_strength, Rat(1, 2)) THEN "BUY" ELSE "SELL"

\* lines 95-101
UpdateMetrics_StaleRate(m, conf, amount) ==
    LET success == RGt(conf, Rat(8, 10))
        rate    == IF m.total_trades > 0
                   THEN Rat(m.successful_trades, m.total_trades) ELSE m.win_rate
    IN  [m EXCEPT !.total_trades = m.total_trades + 1,
                  !.successful_trades = IF success THEN @ + 1 ELSE @,
                  !.total_pnl = IF success THEN RAdd(@, RMul(amount, Rat(2, 100))) ELSE @,
                  !.win_rate = rate]
UpdateMetrics_InclusiveSuccess(m, conf, amount) ==
    LET success == RLeq(Rat(8, 10), conf)
        total   == m.total_trades + 1
        succ    == IF success THEN m.successful_trades + 1 ELSE m.successful_trades
        pnl     == IF success THEN RAdd(m.total_pnl, RMul(amount, Rat(2, 100)))
                              ELSE m.total_pnl
        rate    == IF total > 0 THEN Rat(succ, total) ELSE m.win_rate
    IN  [m EXCEPT !.total_trades = total, !.successful_trades = succ,
                  !.total_pnl = pnl, !.win_rate = rate]
UpdateMetrics_CountsWinsOnly(m, conf, amount) ==
    LET success == RGt(conf, Rat(8, 10))
        total   == IF success THEN m.total_trades + 1 ELSE m.total_trades
        succ    == IF success THEN m.successful_trades + 1 ELSE m.successful_trades
        pnl     == IF success THEN RAdd(m.total_pnl, RMul(amount, Rat(2, 100)))
                              ELSE m.total_pnl
        rate    == IF total > 0 THEN Rat(succ, total) ELSE m.win_rate
    IN  [m EXCEPT !.total_trades = total, !.successful_trades = succ,
                  !.total_pnl = pnl, !.win_rate = rate]
UpdateMetrics(m, conf, amount) ==
    LET success == RGt(conf, Rat(8, 10))
        total   == m.total_trades + 1
        succ    == IF success THEN m.successful_trades + 1 ELSE m.successful_trades
        pnl     == IF success THEN RAdd(m.total_pnl, RMul(amount, Rat(2, 100)))
                              ELSE m.total_pnl
        rate    == IF total > 0 THEN Rat(succ, total) ELSE m.win_rate
    IN  [m EXCEPT !.total_trades = total, !.successful_trades = succ,
                  !.total_pnl = pnl, !.win_rate = rate]

\* lines 79-107: the path taken by an active engine
Decide(signal) ==
    LET conf == calculate_confidence(config, signal) IN
    IF Qualifies(conf)
    THEN LET amount == calculate_position_size(config, signal, conf) IN
         [confidence |-> conf,
          result     |-> [action     |-> ChooseAction(signal),
                          token      |-> signal.token,
                          amount     |-> amount,
                          price      |-> signal.price,
                          confidence |-> conf],
          metrics    |-> UpdateMetrics(metrics, conf, amount)]
    ELSE [confidence |-> conf, result |-> None, metrics |-> metrics]

\* lines 75-76: the early return of an inactive engine
Rejected == [confidence |-> Unset, result |-> None, metrics |-> metrics]

ProcessSignal_IgnoresActive(signal) ==
    /\ metrics.total_trades < MaxTrades
    /\ LET out == Decide(signal) IN
        /\ confidence' = out.confidence
        /\ result' = out.result
        /\ metrics' = out.metrics
        /\ signalsReturned' = IF out.result # None THEN signalsReturned + 1
                                                   ELSE signalsReturned
    /\ op' = "process_signal"
    /\ lastSignal' = signal
    /\ getsSinceProcess' = 0
    /\ UNCHANGED <<active, config, snapshot, snapAtReturn, scoreOut,
                   scorePrev, sizeOut, pc>>
ProcessSignal(signal) ==
    /\ metrics.total_trades < MaxTrades
    /\ LET out == IF ~active THEN Rejected ELSE Decide(signal) IN
        /\ confidence' = out.confidence
        /\ result' = out.result
        /\ metrics' = out.metrics
        /\ signalsReturned' = IF out.result # None THEN signalsReturned + 1
                                                   ELSE signalsReturned
    /\ op' = "process_signal"
    /\ lastSignal' = signal
    /\ getsSinceProcess' = 0
    /\ UNCHANGED <<active, config, snapshot, snapAtReturn, scoreOut,
                   scorePrev, sizeOut, pc>>

\* get_metrics returns the object self.metrics refers to
GetMetricsReturn == [ref |-> "self.metrics"]

\* The field values a caller reads through what get_metrics gave it.
Deref(s) == IF s = [ref |-> "self.metrics"] THEN metrics ELSE s.val

GetMetrics_ReadAndReset ==
    /\ snapshot' = GetMetricsReturn
    /\ snapAtReturn' = metrics
    /\ metrics' = NewMetrics
    /\ getsSinceProcess' = IF getsSinceProcess < 2 THEN getsSinceProcess + 1 ELSE 2
    /\ op' = "get_metrics"
    /\ UNCHANGED <<active, config, lastSignal, confidence, result, scoreOut,
                   scorePrev, sizeOut, signalsReturned, pc>>
GetMetrics ==
    /\ snapshot' = GetMetricsReturn
    /\ snapAtReturn' = metrics
    /\ getsSinceProcess' = IF getsSinceProcess < 2 THEN getsSinceProcess + 1 ELSE 2
    /\ op' = "get_metrics"
    /\ UNCHANGED <<active, config, metrics, lastSignal, confidence, result, scoreOut,
                   scorePrev, sizeOut, signalsReturned, pc>>

Next ==
    \/ Activate
    \/ Deactivate
    \/ \E signal \in MarketSignal : ProcessSignal(signal)
    \/ GetMetrics

Spec == Init /\ [][Next]_vars

-----------------------------------------------------------------------------
(* calculate_confidence on its own, over configurations and signals drawn  *)
(* from bounded sets.                                                      *)

RiskTolerances == {Zero, Rat(1, 2), Rat(85, 100), One, Rat(3, 2)}
ScoreVolumes   == {Rat(-2000000, 1), Zero, Rat(100000, 1), Rat(500000, 1),
                   Rat(1000000, 1), Rat(2000000, 1)}
ScoreStrengths == {Rat(-1, 1), Zero, Rat(1, 5), Rat(1, 2), Rat(14, 17),
                   Rat(9, 10), One, Rat(2, 1)}
ScoreSignals   == [token : {"BONK"}, price : Prices, volume : ScoreVolumes,
                   signal_strength : ScoreStrengths]

ScoreInit ==
    /\ \E r \in RiskTolerances :
          config = [NewConfig(Capital) EXCEPT !.risk_tolerance = r]
    /\ metrics = NewMetrics
    /\ active = FALSE
    /\ op = "init"
    /\ lastSignal = None
    /\ confidence = Unset
    /\ result = None
    /\ snapshot = None
    /\ snapAtReturn = None
    /\ getsSinceProcess = 0
    /\ scoreOut = Unset
    /\ scorePrev = None
    /\ sizeOut = None
    /\ signalsReturned = 0
    /\ pc = "idle"

Score(signal) ==
    /\ scoreOut' = calculate_confidence(config, signal)
    /\ scorePrev' = IF scoreOut = Unset THEN None
                    ELSE [signal |-> lastSignal, score |-> scoreOut]
    /\ lastSignal' = signal
    /\ op' = "calculate_confidence"
    /\ UNCHANGED <<active, config, metrics, confidence, result, snapshot,
                   snapAtReturn, getsSinceProcess, sizeOut, signalsReturned, pc>>

ScoreNext == \E signal \in ScoreSignals : Score(signal)

ScoreSpec == ScoreInit /\ [][ScoreNext]_vars

-----------------------------------------------------------------------------
(* calculate_position_size on its own, over signals and confidences drawn  *)
(* from bounded sets, for the engine main() constructs.                    *)

SizeConfidences == {Zero, Rat(1, 2), Rat(153, 200), One}

SizeInit == Init

Size(signal, conf) ==
    /\ sizeOut' = [signal     |-> signal,
                   confidence |-> conf,
                   amount     |-> calculate_position_size(config, signal, conf)]
    /\ op' = "calculate_position_size"
    /\ UNCHANGED <<active, config, metrics, lastSignal, confidence, result,
                   snapshot, snapAtReturn, getsSinceProcess, scoreOut,
                   scorePrev, signalsReturned, pc>>

SizeNext == \E signal \in ScoreSignals, conf \in SizeConfidences : Size(signal, conf)

SizeSpec == SizeInit /\ [][SizeNext]_vars

-----------------------------------------------------------------------------
(* main() driving the engine, with process_signal taken one statement at a *)
(* time.  asyncio hands control to another coroutine only where the        *)
(* running coroutine suspends; awaiting activate, process_signal or        *)
(* deactivate runs their bodies inline, so the one place where main()      *)
(* suspends is `await asyncio.sleep(2)`.  The other coroutine is any task  *)
(* sharing the engine: it may call activate, deactivate or get_metrics     *)
(* whenever it is given control.                                           *)

\* what generate_market_signal can produce: volume in [500000, 2500000),
\* signal_strength in [0, 1)
DriverSignals == [token : Tokens, price : Prices,
                  volume : {Rat(500000, 1), Rat(1000000, 1), Rat(2000000, 1)},
                  signal_strength : {Rat(1, 5), Rat(14, 17), Rat(9, 10),
                                     Rat(16, 17), Rat(82, 85)}]

\* positions of main() at which the event loop may run another coroutine
SuspensionPoints_InsideUpdate == {"main_178", "ps_100"}
SuspensionPoints == {"main_178"}

\* positions inside the body of process_signal
ProcessSignalPcs == {"ps_75", "ps_79", "ps_81", "ps_95", "ps_96", "ps_97",
                     "ps_98", "ps_100", "ps_105"}

\* never written by main() or by process_signal
driverFrame == <<config, scoreOut, scorePrev, sizeOut>>

DriverInit ==
    /\ config = NewConfig(Capital)
    /\ metrics = NewMetrics
    /\ active = FALSE
    /\ op = "init"
    /\ lastSignal = None
    /\ confidence = Unset
    /\ result = None
    /\ snapshot = None
    /\ snapAtReturn = None
    /\ getsSinceProcess = 0
    /\ scoreOut = Unset
    /\ scorePrev = None
    /\ sizeOut = None
    /\ signalsReturned = 0
    /\ pc = "main_156"

\* line 156
D_Activate ==
    /\ pc = "main_156"
    /\ active' = TRUE
    /\ op' = "activate"
    /\ pc' = "main_163"
    /\ UNCHANGED <<metrics, lastSignal, confidence, result, snapshot,
                   snapAtReturn, getsSinceProcess, signalsReturned, driverFrame>>

\* line 163: the demo time has not run out
D_LoopEnter ==
    /\ pc = "main_163"
    /\ metrics.total_trades < MaxTrades
    /\ pc' = "main_165"
    /\ UNCHANGED <<active, metrics, op, lastSignal, confidence, result, snapshot,
                   snapAtReturn, getsSinceProcess, signalsReturned, driverFrame>>

\* line 163: the demo time has run out
D_LoopExit ==
    /\ pc = "main_163"
    /\ pc' = "main_181"
    /\ UNCHANGED <<active, metrics, op, lastSignal, confidence, result, snapshot,
                   snapAtReturn, getsSinceProcess, signalsReturned, driverFrame>>

\* lines 165-166: a signal is generated and process_signal is entered
D_Call(signal) ==
    /\ pc = "main_165"
    /\ lastSignal' = signal
    /\ confidence' = Unset
    /\ getsSinceProcess' = 0
    /\ pc' = "ps_75"
    /\ UNCHANGED <<active, metrics, op, result, snapshot, snapAtReturn,
                   signalsReturned, driverFrame>>

\* lines 75-76
PS_75 ==
    /\ pc = "ps_75"
    /\ IF ~active
       THEN /\ result' = None
            /\ op' = "process_signal"
            /\ pc' = "main_168"
       ELSE /\ pc' = "ps_79"
            /\ UNCHANGED <<result, op>>
    /\ UNCHANGED <<active, metrics, lastSignal, confidence, snapshot,
                   snapAtReturn, getsSinceProcess, signalsReturned, driverFrame>>

\* line 79
PS_79 ==
    /\ pc = "ps_79"
    /\ confidence' = calculate_confidence(config, lastSignal)
    /\ pc' = "ps_81"
    /\ UNCHANGED <<active, metrics, op, lastSignal, result, snapshot,
                   snapAtReturn, getsSinceProcess, signalsReturned, driverFrame>>

\* lines 81-92 and 107: trading_signal is built from locals only
PS_81 ==
    /\ pc = "ps_81"
    /\ IF Qualifies(confidence)
       THEN /\ pc' = "ps_95"
            /\ UNCHANGED <<result, op>>
       ELSE /\ result' = None
            /\ op' = "process_signal"
            /\ pc' = "main_168"
    /\ UNCHANGED <<active, metrics, lastSignal, confidence, snapshot,
                   snapAtReturn, getsSinceProcess, signalsReturned, driverFrame>>

\* line 95
PS_95 ==
    /\ pc = "ps_95"
    /\ metrics' = [metrics EXCEPT !.total_trades = @ + 1]
    /\ pc' = "ps_96"
    /\ UNCHANGED <<active, op, lastSignal, confidence, result, snapshot,
                   snapAtReturn, getsSinceProcess, signalsReturned, driverFrame>>

\* line 96
PS_96 ==
    /\ pc = "ps_96"
    /\ pc' = IF RGt(confidence, Rat(8, 10)) THEN "ps_97" ELSE "ps_100"
    /\ UNCHANGED <<active, metrics, op, lastSignal, confidence, result, snapshot,
                   snapAtReturn, getsSinceProcess, signalsReturned, driverFrame>>

\* line 97
PS_97 ==
    /\ pc = "ps_97"
    /\ metrics' = [metrics EXCEPT !.successful_trades = @ + 1]
    /\ pc' = "ps_98"
    /\ UNCHANGED <<active, op, lastSignal, confidence, result, snapshot,
                   snapAtReturn, getsSinceProcess, signalsReturned, driverFrame>>

\* line 98; amount is the local computed at line 83
PS_98 ==
    /\ pc = "ps_98"
    /\ LET amount == calculate_position_size(config, lastSignal, confidence) IN
           metrics' = [metrics EXCEPT !.total_pnl = RAdd(@, RMul(amount, Rat(2, 100)))]
    /\ pc' = "ps_100"
    /\ UNCHANGED <<active, op, lastSignal, confidence, result, snapshot,
                   snapAtReturn, getsSinceProcess, signalsReturned, driverFrame>>

\* lines 100-101
PS_100 ==
    /\ pc = "ps_100"
    /\ metrics' = IF metrics.total_trades > 0
                  THEN [metrics EXCEPT !.win_rate =
                           Rat(metrics.successful_trades, metrics.total_trades)]
                  ELSE metrics
    /\ pc' = "ps_105"
    /\ UNCHANGED <<active, op, lastSignal, confidence, result, snapshot,
                   snapAtReturn, getsSinceProcess, signalsReturned, driverFrame>>

\* line 105: the trading_signal built at lines 85-92 is returned
PS_105 ==
    /\ pc = "ps_105"
    /\ result' = [action     |-> ChooseAction(lastSignal),
                  token      |-> lastSignal.token,
                  amount     |-> calculate_position_size(config, lastSignal, confidence),
                  price      |-> lastSignal.price,
                  confidence |-> confidence]
    /\ signalsReturned' = signalsReturned + 1
    /\ op' = "process_signal"
    /\ pc' = "main_168"
    /\ UNCHANGED <<active, metrics, lastSignal, confidence, snapshot,
                   snapAtReturn, getsSinceProcess, driverFrame>>

\* lines 172-176: ten seconds have passed since the last report
D_Report ==
    /\ pc = "main_168"
    /\ snapshot' = GetMetricsReturn
    /\ snapAtReturn' = metrics
    /\ getsSinceProcess' = IF getsSinceProcess < 2 THEN getsSinceProcess + 1 ELSE 2
    /\ op' = "get_metrics"
    /\ pc' = "main_178"
    /\ UNCHANGED <<active, metrics, lastSignal, confidence, result,
                   signalsReturned, driverFrame>>

\* lines 168-173: no report is due
D_NoReport ==
    /\ pc = "main_168"
    /\ pc' = "main_178"
    /\ UNCHANGED <<active, metrics, op, lastSignal, confidence, result, snapshot,
                   snapAtReturn, getsSinceProcess, signalsReturned, driverFrame>>

\* line 178: the sleep is over and main() is resumed
D_Wake ==
    /\ pc = "main_178"
    /\ pc' = "main_163"
    /\ UNCHANGED <<active, metrics, op, lastSignal, confidence, result, snapshot,
                   snapAtReturn, getsSinceProcess, signalsReturned, driverFrame>>

\* line 181
D_Deactivate ==
    /\ pc = "main_181"
    /\ active' = FALSE
    /\ op' = "deactivate"
    /\ pc' = "done"
    /\ UNCHANGED <<metrics, lastSignal, confidence, result, snapshot,
                   snapAtReturn, getsSinceProcess, signalsReturned, driverFrame>>

\* another coroutine runs while main() is suspended
OtherActivate   == pc \in SuspensionPoints /\ Activate
OtherDeactivate == pc \in SuspensionPoints /\ Deactivate
OtherGetMetrics == pc \in SuspensionPoints /\ GetMetrics

DriverNext ==
    \/ D_Activate
    \/ D_LoopEnter
    \/ D_LoopExit
    \/ \E signal \in DriverSignals : D_Call(signal)
    \/ PS_75
    \/ PS_79
    \/ PS_81
    \/ PS_95
    \/ PS_96
    \/ PS_97
    \/ PS_98
    \/ PS_100
    \/ PS_105
    \/ D_Report
    \/ D_NoReport
    \/ D_Wake
    \/ D_Deactivate
    \/ OtherActivate
    \/ OtherDeactivate
    \/ OtherGetMetrics

DriverSpec == DriverInit /\ [][DriverNext]_vars

-----------------------------------------------------------------------------
(* Properties                                                              *)

InUnit(x) == RLeq(Zero, x) /\ RLeq(x, One)

\* C1: a process_signal call on an inactive engine returns nothing and
\* leaves every field of the metrics unchanged.
C1_InactiveNoEffect ==
    [][(op' = "process_signal" /\ ~active)
           => (result' = None /\ metrics' = metrics)]_vars

\* an inactive engine with trades on record was handed a signal that an
\* active engine would have traded
C1_Witness ==
    /\ op = "process_signal" /\ ~active /\ result = None
    /\ metrics.total_trades > 0
    /\ RGt(calculate_confidence(config, lastSignal), Rat(7, 10))

\* C2: successful_trades <= total_trades, and win_rate is
\* successful_trades / total_trades when total_trades > 0 and 0 otherwise.
C2_MetricsInvariant ==
    /\ metrics.successful_trades <= metrics.total_trades
    /\ metrics.total_trades > 0 =>
          /\ metrics.win_rate[2] > 0
          /\ metrics.win_rate[1] * metrics.total_trades
                = metrics.successful_trades * metrics.win_rate[2]
    /\ metrics.total_trades = 0 => metrics.win_rate[1] = 0

C2_Witness ==
    /\ metrics.total_trades = 3 /\ metrics.successful_trades = 1
    /\ metrics.win_rate = <<1, 3>>

\* C3: an active engine returns a TradingSignal exactly when the computed
\* confidence is strictly above 0.7; at or below 0.7 it returns nothing and
\* the metrics keep their values.
C3_StrictThreshold ==
    [][(op' = "process_signal" /\ active) =>
          /\ (result' # None) <=> (confidence'[1] * 10 > 7 * confidence'[2])
          /\ (confidence'[1] * 10 <= 7 * confidence'[2]) => metrics' = metrics]_vars

\* confidence exactly 0.7 on an active engine: nothing returned
C3_Witness ==
    /\ op = "process_signal" /\ active /\ confidence = <<7, 10>>
    /\ result = None

\* C4: an emitted TradingSignal is a BUY exactly when signal_strength > 0.5
\* and a SELL otherwise; HOLD is never emitted.
C4_Direction ==
    result # None =>
        /\ result.action \in {"BUY", "SELL"}
        /\ (result.action = "BUY")
              <=> (lastSignal.signal_strength[1] * 2 > lastSignal.signal_strength[2])

C4_Witness ==
    /\ result # None /\ result.action = "SELL"
    /\ RLeq(lastSignal.signal_strength, Rat(1, 2))

\* C5: every emitted TradingSignal has 0 <= amount <= max_position_size,
\* whatever signal was accepted.
C5_AmountBounded ==
    result # None =>
        /\ RLeq(Zero, result.amount)
        /\ RLeq(result.amount, config.max_position_size)

\* C6: no step of the engine decreases total_pnl.
C6_PnlMonotone ==
    [][RLeq(metrics.total_pnl, metrics'.total_pnl)]_vars

\* C7: what get_metrics returned keeps showing the values it had when it
\* was returned, whatever the engine does afterwards.
C7_SnapshotIsValue ==
    snapshot # None => Deref(snapshot) = snapAtReturn

\* C8: deactivate sets the engine inactive and changes nothing else; the
\* metrics keep every field.
C8_DeactivateFrame ==
    [][op' = "deactivate" =>
          /\ ~active'
          /\ metrics' = metrics
          /\ config' = config]_vars

C8_Witness ==
    /\ op = "deactivate" /\ ~active
    /\ metrics.total_trades > 0 /\ RGt(metrics.total_pnl, Zero)

\* C9: get_metrics changes neither the metrics nor the active flag, and a
\* get_metrics call that follows another with no process_signal in between
\* returns the same values.
C9_PureRead ==
    [][op' = "get_metrics" =>
          /\ metrics' = metrics
          /\ active' = active
          /\ getsSinceProcess >= 1 => snapAtReturn' = snapAtReturn]_vars

C9_Witness ==
    /\ op = "get_metrics" /\ getsSinceProcess = 2
    /\ metrics.total_trades > 0
    /\ snapAtReturn = metrics

\* C10: with volume >= 0, signal_strength in [0,1] and risk_tolerance in
\* [0,1], calculate_confidence returns a value in [0,1].
C10_ScoreInUnit ==
    (/\ scoreOut # Unset
     /\ RLeq(Zero, lastSignal.volume)
     /\ InUnit(lastSignal.signal_strength)
     /\ InUnit(config.risk_tolerance))
        => InUnit(scoreOut)

\* the volume cap is what keeps the product in range here
C10_Witness ==
    /\ scoreOut = One
    /\ lastSignal.volume = Rat(2000000, 1)
    /\ lastSignal.signal_strength = One
    /\ config.risk_tolerance = One

\* C11: an active engine computes confidence = min(min(volume/1,000,000, 1)
\* * signal_strength * risk_tolerance, 1) and amount = max_position_size *
\* confidence * (1 - |signal_strength - 0.5|).  With capital 1000, volume
\* 2,000,000 and strength 0.9 give a BUY with confidence 0.765 and amount
\* 45.9; volume 100,000 and strength 0.2 give nothing and no metrics change.
C11_ScoreAndSize ==
    [][(op' = "process_signal" /\ active) =>
        LET sig  == lastSignal'
            s    == sig.signal_strength
            vf   == IF RLt(sig.volume, <<1000000, 1>>)
                    THEN RDiv(sig.volume, <<1000000, 1>>) ELSE <<1, 1>>
            prod == RMul(vf, RMul(s, config.risk_tolerance))
            conf == IF RGt(prod, <<1, 1>>) THEN <<1, 1>> ELSE prod
            dist == IF 2 * s[1] >= s[2] THEN <<2 * s[1] - s[2], 2 * s[2]>>
                                        ELSE <<s[2] - 2 * s[1], 2 * s[2]>>
            adj  == <<dist[2] - dist[1], dist[2]>>
        IN  /\ confidence' = conf
            /\ result' # None =>
                  /\ result'.confidence = conf
                  /\ result'.amount = RMul(config.max_position_size, RMul(conf, adj))
            /\ (sig.volume = <<2000000, 1>> /\ s = <<9, 10>>) =>
                  /\ result' # None
                  /\ result'.action = "BUY"
                  /\ result'.confidence = <<153, 200>>
                  /\ result'.amount = <<459, 10>>
            /\ (sig.volume = <<100000, 1>> /\ s = <<1, 5>>) =>
                  /\ confidence' = <<17, 1000>>
                  /\ result' = None
                  /\ metrics' = metrics]_vars

\* scenario A has just been processed
C11_Witness ==
    /\ op = "process_signal" /\ active
    /\ config.max_position_size = <<100, 1>>
    /\ lastSignal.volume = <<2000000, 1>> /\ lastSignal.signal_strength = <<9, 10>>
    /\ result # None /\ result.action = "BUY"
    /\ result.amount = <<459, 10>>

\* C13: a qualifying process_signal call adds exactly 1 to total_trades; it
\* adds 1 to successful_trades and amount * 0.02 to total_pnl exactly when
\* confidence > 0.8, and otherwise leaves both unchanged.
C13_TradeAccounting ==
    [][(op' = "process_signal" /\ active
           /\ confidence'[1] * 10 > 7 * confidence'[2]) =>
        /\ result' # None
        /\ metrics'.total_trades = metrics.total_trades + 1
        /\ IF confidence'[1] * 10 > 8 * confidence'[2]
           THEN /\ metrics'.successful_trades = metrics.successful_trades + 1
                /\ metrics'.total_pnl
                      = RAdd(metrics.total_pnl, RMul(result'.amount, <<1, 50>>))
           ELSE /\ metrics'.successful_trades = metrics.successful_trades
                /\ metrics'.total_pnl = metrics.total_pnl]_vars

\* three qualifying signals, one of them above 0.8, the last one exactly 0.8
C13_Witness ==
    /\ op = "process_signal" /\ result # None
    /\ result.confidence = <<4, 5>>
    /\ metrics.total_trades = 3 /\ metrics.successful_trades = 1
    /\ metrics.win_rate = <<1, 3>>
    /\ RGt(metrics.total_pnl, Zero)

\* C12: for fixed risk_tolerance and signal_strength in [0,1], the score
\* does not decrease when the volume grows from 0 upwards, and it is the
\* same for every volume >= 1,000,000.
C12_VolumeMonotone ==
    (/\ scorePrev # None
     /\ scoreOut # Unset
     /\ scorePrev.signal.signal_strength = lastSignal.signal_strength
     /\ InUnit(lastSignal.signal_strength)
     /\ InUnit(config.risk_tolerance)
     /\ RLeq(Zero, scorePrev.signal.volume)
     /\ RLeq(scorePrev.signal.volume, lastSignal.volume))
        => /\ RLeq(scorePrev.score, scoreOut)
           /\ RLeq(<<1000000, 1>>, scorePrev.signal.volume)
                 => scorePrev.score = scoreOut

\* the score grew from volume 500,000 to 2,000,000
C12_Witness ==
    /\ scorePrev # None
    /\ scorePrev.signal.volume = <<500000, 1>>
    /\ lastSignal.volume = <<2000000, 1>>
    /\ scorePrev.signal.signal_strength = One /\ lastSignal.signal_strength = One
    /\ config.risk_tolerance = One
    /\ scorePrev.score = <<1, 2>> /\ scoreOut = One

\* C14 as stated: the amount is max_position_size * confidence at
\* signal_strength 0.5 and 0 at signal_strength 0 and 1.
C14_ZeroAtExtremes ==
    sizeOut # None =>
        /\ sizeOut.signal.signal_strength = <<1, 2>> =>
              sizeOut.amount = RMul(config.max_position_size, sizeOut.confidence)
        /\ sizeOut.signal.signal_strength \in {Zero, One} =>
              sizeOut.amount = Zero

\* C14, amended: the volatility adjustment is 1.0 at signal_strength 0.5
\* and falls linearly to 0.5 at signal_strength 0 and 1, so the amount there
\* is half of max_position_size * confidence.
C14_HalfAtExtremes ==
    (sizeOut # None /\ InUnit(sizeOut.signal.signal_strength)) =>
        LET s    == sizeOut.signal.signal_strength
            full == RMul(config.max_position_size, sizeOut.confidence)
            near == IF 2 * s[1] <= s[2] THEN s ELSE <<s[2] - s[1], s[2]>>
        IN  /\ sizeOut.amount = RMul(full, RAdd(<<1, 2>>, near))
            /\ s = <<1, 2>> => sizeOut.amount = full
            /\ s \in {Zero, One} => RMul(<<2, 1>>, sizeOut.amount) = full

C14_Witness ==
    /\ sizeOut # None
    /\ sizeOut.signal.signal_strength = One
    /\ sizeOut.confidence = One
    /\ sizeOut.amount = <<50, 1>>

\* C15: the engine starts inactive with fresh metrics; activate makes it
\* active from either state and changes no metrics field; deactivate makes
\* it inactive from either state.
C15_Lifecycle ==
    /\ (~active /\ metrics = NewMetrics)
    /\ [][/\ op' = "activate" => (active' /\ metrics' = metrics)
          /\ op' = "deactivate" => ~active']_vars

\* re-activated with trades on record: the last process_signal call found
\* the engine inactive, so a deactivate lies between the trades and this
\* activate
C15_Witness ==
    /\ op = "activate" /\ active
    /\ metrics.total_trades > 0
    /\ lastSignal # None /\ confidence = Unset

ValidSignal(sig) == RLeq(Zero, sig.volume) /\ InUnit(sig.signal_strength)

\* C17: with risk_tolerance in [0,1], volume >= 0 and signal_strength in
\* [0,1], a signal with signal_strength <= 0.5 has confidence <= 0.5 and is
\* not traded, so every emitted TradingSignal is a BUY.
C17_NoSell ==
    (/\ lastSignal # None
     /\ ValidSignal(lastSignal)
     /\ InUnit(config.risk_tolerance))
        => /\ result # None => result.action = "BUY"
           /\ (confidence # Unset /\ RLeq(lastSignal.signal_strength, <<1, 2>>))
                 => (RLeq(confidence, <<1, 2>>) /\ result = None)

\* full volume at signal_strength 0.5 on an active engine: confidence 0.425
C17_Witness ==
    /\ op = "process_signal" /\ active
    /\ lastSignal.signal_strength = <<1, 2>>
    /\ lastSignal.volume = <<2000000, 1>>
    /\ confidence = <<17, 40>>
    /\ result = None

\* C18: total_trades is the number of process_signal calls that returned a
\* TradingSignal; a call returns one exactly when it changes the metrics,
\* and no other operation changes total_trades.
C18_TradeCount ==
    /\ [](metrics.total_trades = signalsReturned)
    /\ [][/\ op' = "process_signal" => ((result' # None) <=> (metrics' # metrics))
          /\ op' # "process_signal" => metrics'.total_trades = metrics.total_trades]_vars

\* two calls returned a signal, then an active engine returned nothing
C18_Witness ==
    /\ op = "process_signal" /\ active /\ result = None
    /\ signalsReturned = 2 /\ metrics.total_trades = 2
    /\ metrics.successful_trades = 0

\* win_rate agrees with the counters
RateCurrent ==
    /\ metrics.total_trades > 0 =>
          metrics.win_rate[1] * metrics.total_trades
             = metrics.successful_trades * metrics.win_rate[2]
    /\ metrics.total_trades = 0 => metrics.win_rate[1] = 0

\* C16: process_signal has no suspension point: every step of another
\* coroutine (a step that leaves main() where it is) starts outside the
\* body of process_signal, with win_rate agreeing with the counters, and
\* every value get_metrics hands out agrees likewise.
C16_NoSuspensionInside ==
    /\ [](snapAtReturn # None =>
            /\ snapAtReturn.total_trades > 0 =>
                  snapAtReturn.win_rate[1] * snapAtReturn.total_trades
                     = snapAtReturn.successful_trades * snapAtReturn.win_rate[2]
            /\ snapAtReturn.total_trades = 0 => snapAtReturn.win_rate[1] = 0)
    /\ [][pc' = pc => (pc \notin ProcessSignalPcs /\ RateCurrent)]_vars

\* the other coroutine read the metrics during the sleep that followed a
\* trade, after main() had read them itself
C16_Witness ==
    /\ pc = "main_178" /\ op = "get_metrics"
    /\ getsSinceProcess = 2
    /\ result # None
    /\ metrics.total_trades > 0
    /\ snapAtReturn = metrics

\* process_signal does pass through states in which the counters have
\* moved and win_rate has not
C16_StaleInside == pc = "ps_100" /\ ~RateCurrent

====
